---- MODULE Spec2Model ----
(***************************************************************************)
(* SSD MNASNet FPN feature extractors                                      *)
(* (object_detection/models/ssd_mnasnet_fpn_feature_extractor.py).         *)
(*                                                                         *)
(* Two classes, SSDMNASNetA1FpnFeatureExtractor ("A1") and                 *)
(* SSDMNASNetB1FpnFeatureExtractor ("B1"), each with __init__, preprocess  *)
(* and extract_features.  extract_features builds a graph: every framework *)
(* call that constructs an op appends one node to `graph`, recording the   *)
(* variable scope and the arg scopes that are active at that moment.       *)
(* Tensors are references [node, out] to an output of a graph node.        *)
(***************************************************************************)
EXTENDS Integers, Sequences, FiniteSets, TLC

VARIABLES
  variant,                \* which class the object is: "A1" or "B1"
  fpn_min_level,          \* self._fpn_min_level
  fpn_max_level,          \* self._fpn_max_level
  use_depthwise,          \* self._use_depthwise
  use_explicit_padding,   \* self._use_explicit_padding
  override_base_feature_extractor_hyperparams,
  image_size,             \* smaller spatial dimension of preprocessed_inputs
  pc,                     \* position inside extract_features
  var_scope,              \* stack of open tf.variable_scope names
  arg_scope,              \* stack of open slim.arg_scope entries
  graph,                  \* ops constructed so far, in construction order
  image_features,         \* end points returned by mnasnet.mnasnet_base
  feature_block_list,
  fpn_features,           \* dict returned by fpn_top_down_feature_maps
  feature_maps,
  last_feature_map,
  level,                  \* loop variable of the two `for level` loops
  i,                      \* loop variable of the coarse-feature loop
  resized_inputs,         \* pixel values handed to preprocess
  preprocessedA1,         \* result of A1.preprocess(resized_inputs)
  preprocessedB1          \* result of B1.preprocess(resized_inputs)

config == <<variant, fpn_min_level, fpn_max_level, use_depthwise,
            use_explicit_padding, override_base_feature_extractor_hyperparams,
            image_size>>
locals == <<image_features, feature_block_list, fpn_features, feature_maps,
            last_feature_map, level, i>>
pre    == <<resized_inputs, preprocessedA1, preprocessedB1>>
vars   == <<config, pc, var_scope, arg_scope, graph, locals, pre>>

-----------------------------------------------------------------------------
(* Bounds of the model *)

\* largest fpn_max_level a constructor call is given
MaxLevel == 8

-----------------------------------------------------------------------------
(* Program constants *)

MinImageDim == 33
Variants == {"A1", "B1"}
\* image sizes around the minimum dimension
ImageSizes == {MinImageDim - 1, MinImageDim}
\* fpn_min_level: "The valid values are {2, 3, 4, 5}"
ValidMinLevels == 2..5

NoTensor == [node |-> 0, out |-> ""]
Tensor(n, o) == [node |-> n, out |-> o]

RECURSIVE Pow2(_)
Pow2(n) == IF n = 0 THEN 1 ELSE 2 * Pow2(n - 1)

Min(a, b) == IF a < b THEN a ELSE b
Max(a, b) == IF a > b THEN a ELSE b

\* 'layer_{n}', 'top_down_{}'.format(key)
LayerName(n) == "layer_" \o ToString(n)
TopDownName(key) == "top_down_" \o key

-----------------------------------------------------------------------------
(* Per-class parts of extract_features *)

A1_final_endpoint == 18
B1_final_endpoint == 19

A1_feature_blocks == <<"layer_4", "layer_7", "layer_13", "layer_18">>
\* variant: the block list of the A1 class pasted into the B1 class
B1_feature_blocks_m == A1_feature_blocks
B1_feature_blocks == <<"layer_5", "layer_8", "layer_13", "layer_19">>

A1_conv_defs == "MNASNET_A1_DEF"
B1_conv_defs == "MNASNET_B1_DEF"

\* scope='bottom_up_Conv2d_{}'.format(i - base_fpn_max_level + 19)
\* variant: scopes numbered on from the A1 final end point (layer_18)
A1_bottom_up_scope_m(idx, base) ==
  "bottom_up_Conv2d_" \o ToString(idx - base + A1_final_endpoint)
A1_bottom_up_scope(idx, base) == "bottom_up_Conv2d_" \o ToString(idx - base + 19)
B1_bottom_up_scope(idx, base) == "bottom_up_Conv2d_" \o ToString(idx - base + 19)

\* variant: the backbone built only as deep as the pyramid needs
final_endpoint_m ==
  IF fpn_max_level < 5 THEN 13
  ELSE IF variant = "A1" THEN A1_final_endpoint ELSE B1_final_endpoint
final_endpoint == IF variant = "A1" THEN A1_final_endpoint ELSE B1_final_endpoint
feature_blocks == IF variant = "A1" THEN A1_feature_blocks ELSE B1_feature_blocks
conv_defs == IF variant = "A1" THEN A1_conv_defs ELSE B1_conv_defs
bottom_up_scope(idx, base) ==
  IF variant = "A1" THEN A1_bottom_up_scope(idx, base)
                    ELSE B1_bottom_up_scope(idx, base)

\* base_fpn_max_level = min(self._fpn_max_level, 5)
base_fpn_max_level == Min(fpn_max_level, 5)

kernel_size == 3
stride == 2
\* padding = 'VALID' if self._use_explicit_padding else 'SAME'
padding == IF use_explicit_padding THEN "VALID" ELSE "SAME"
\* conv_op = partial(slim.separable_conv2d, depth_multiplier=1) / slim.conv2d
conv_op == IF use_depthwise THEN "separable_conv2d" ELSE "conv2d"

\* for level in range(self._fpn_min_level, base_fpn_max_level + 1)
level_range_start == fpn_min_level
level_range_stop == base_fpn_max_level + 1

\* for i in range(base_fpn_max_level + 1, self._fpn_max_level + 1)
\* variants: off-by-one ends of the coarse-feature range
coarse_range_start_m == base_fpn_max_level
coarse_range_stop_m == fpn_max_level
coarse_range_start == base_fpn_max_level + 1
coarse_range_stop == fpn_max_level + 1

\* feature_blocks[level - 2]  (Python lists are 0-based, sequences 1-based)
FeatureBlock(lvl) == feature_blocks[(lvl - 2) + 1]

\* slim.arg_scope(self._conv_hyperparams_fn())
\*   if self._override_base_feature_extractor_hyperparams
\*   else context_manager.IdentityContextManager()
\* variant: the hyperparams scope entered whatever the flag says
override_scope_m == <<"conv_hyperparams">>
override_scope ==
  IF override_base_feature_extractor_hyperparams
    THEN <<"conv_hyperparams">>
    ELSE <<>>

\* One constructed op.  `name` is the op's scope / name argument, `input` the
\* tensor it consumes, `arg` the op's distinguishing argument (minimum
\* dimension, final_endpoint, kernel size of the padding), stride / kernel /
\* padding the convolution arguments, and var_scope / arg_scope the scopes
\* open when the op is constructed.
Node(op, name, input, arg, strd, kernel, pad) ==
  [op |-> op, name |-> name, input |-> input, arg |-> arg,
   stride |-> strd, kernel |-> kernel, padding |-> pad,
   var_scope |-> var_scope, arg_scope |-> arg_scope]

-----------------------------------------------------------------------------
(* __init__ *)

InitLocals ==
  /\ pc = "start"
  /\ var_scope = <<>>
  /\ arg_scope = <<>>
  /\ graph = <<>>
  /\ image_features = <<>>
  /\ feature_block_list = <<>>
  /\ fpn_features = <<>>
  /\ feature_maps = <<>>
  /\ last_feature_map = NoTensor
  /\ level = 0
  /\ i = 0

Init ==
  /\ variant \in Variants
  /\ fpn_min_level \in ValidMinLevels
  /\ fpn_max_level \in fpn_min_level..MaxLevel
  /\ use_depthwise \in BOOLEAN
  /\ use_explicit_padding \in BOOLEAN
  /\ override_base_feature_extractor_hyperparams \in BOOLEAN
  /\ image_size \in ImageSizes
  /\ InitLocals
  /\ resized_inputs = <<>>
  /\ preprocessedA1 = <<>>
  /\ preprocessedB1 = <<>>

-----------------------------------------------------------------------------
(* extract_features *)

\* preprocessed_inputs = shape_utils.check_min_image_dim(33, preprocessed_inputs)
CheckMinImageDim ==
  /\ pc = "start"
  /\ IF image_size >= MinImageDim
       THEN /\ graph' = Append(graph, Node("check_min_image_dim", "", NoTensor,
                                            MinImageDim, 0, 0, ""))
            /\ pc' = "mnasnet_scope"
       ELSE /\ graph' = graph
            /\ pc' = "error"
  /\ UNCHANGED <<config, var_scope, arg_scope, locals, pre>>

\* with tf.variable_scope('Mnasnet', reuse=self._reuse_weights) as scope:
EnterMnasnetScope ==
  /\ pc = "mnasnet_scope"
  /\ var_scope' = Append(var_scope, "Mnasnet")
  /\ pc' = "training_scope"
  /\ UNCHANGED <<config, arg_scope, graph, locals, pre>>

\* with slim.arg_scope(mnasnet.training_scope(is_training=None, bn_decay=0.9997)),
\*      slim.arg_scope([mnasnet.depth_multiplier_fn], min_depth=self._min_depth):
EnterTrainingScope ==
  /\ pc = "training_scope"
  /\ arg_scope' = arg_scope \o
       <<"training_scope(is_training=None, bn_decay=0.9997)", "min_depth">>
  /\ pc' = "override_scope"
  /\ UNCHANGED <<config, var_scope, graph, locals, pre>>

\* with (slim.arg_scope(self._conv_hyperparams_fn())
\*       if self._override_base_feature_extractor_hyperparams else
\*       context_manager.IdentityContextManager()):
EnterOverrideScope ==
  /\ pc = "override_scope"
  /\ arg_scope' = arg_scope \o override_scope
  /\ pc' = "pad"
  /\ UNCHANGED <<config, var_scope, graph, locals, pre>>

\* ops.pad_to_multiple(preprocessed_inputs, self._pad_to_multiple)
PadToMultiple ==
  /\ pc = "pad"
  /\ graph' = Append(graph, Node("pad_to_multiple", "", Tensor(Len(graph), ""),
                                 0, 0, 0, ""))
  /\ pc' = "backbone"
  /\ UNCHANGED <<config, var_scope, arg_scope, locals, pre>>

\* _, image_features = mnasnet.mnasnet_base(..., final_endpoint=..., conv_defs=...)
\* The end points dict holds 'layer_1' .. final_endpoint.
MnasnetBase ==
  /\ pc = "backbone"
  /\ graph' = Append(graph, Node("mnasnet_base", conv_defs, Tensor(Len(graph), ""),
                                 final_endpoint, 0, 0, ""))
  /\ image_features' =
       [key \in {LayerName(k) : k \in 1..final_endpoint} |->
          Tensor(Len(graph) + 1, key)]
  /\ pc' = "exit_base"
  /\ UNCHANGED <<config, var_scope, arg_scope, feature_block_list, fpn_features,
                 feature_maps, last_feature_map, level, i, pre>>

\* leaving the three arg-scope `with` blocks of the backbone
ExitBaseScopes ==
  /\ pc = "exit_base"
  /\ arg_scope' = <<>>
  /\ pc' = "fpn_scope"
  /\ UNCHANGED <<config, var_scope, graph, locals, pre>>

\* with slim.arg_scope(self._conv_hyperparams_fn()):
\*   with tf.variable_scope('fpn', reuse=self._reuse_weights):
EnterFpnScope ==
  /\ pc = "fpn_scope"
  /\ arg_scope' = Append(arg_scope, "conv_hyperparams")
  /\ var_scope' = Append(var_scope, "fpn")
  /\ feature_block_list' = <<>>
  /\ level' = level_range_start
  /\ pc' = "block_list"
  /\ UNCHANGED <<config, graph, image_features, fpn_features, feature_maps,
                 last_feature_map, i, pre>>

\* for level in range(self._fpn_min_level, base_fpn_max_level + 1):
\*   feature_block_list.append(feature_blocks[level - 2])
BlockListLoop ==
  /\ pc = "block_list"
  /\ level < level_range_stop
  /\ feature_block_list' = Append(feature_block_list, FeatureBlock(level))
  /\ level' = level + 1
  /\ UNCHANGED <<config, pc, var_scope, arg_scope, graph, image_features,
                 fpn_features, feature_maps, last_feature_map, i, pre>>

\* fpn_features = feature_map_generators.fpn_top_down_feature_maps(
\*     [(key, image_features[key]) for key in feature_block_list], ...)
\* The generator builds one top-down map per (key, tensor) pair, coarsest
\* first, and returns them keyed 'top_down_<key>'.
RECURSIVE TopDownNodes(_, _)
TopDownNodes(keys, n) ==
  IF n = 0 THEN <<>>
  ELSE <<Node("fpn_top_down", TopDownName(keys[n]), image_features[keys[n]],
              0, 0, 0, "")>>
       \o TopDownNodes(keys, n - 1)

FpnTopDownFeatureMaps ==
  /\ pc = "block_list"
  /\ ~(level < level_range_stop)
  /\ LET keys  == feature_block_list
         nodes == TopDownNodes(keys, Len(keys))
     IN /\ graph' = graph \o nodes
        /\ fpn_features' =
             [name \in {TopDownName(keys[k]) : k \in 1..Len(keys)} |->
                Tensor(Len(graph) +
                         (CHOOSE j \in 1..Len(nodes) : nodes[j].name = name), "")]
  /\ feature_maps' = <<>>
  /\ level' = level_range_start
  /\ pc' = "feature_maps"
  /\ UNCHANGED <<config, var_scope, arg_scope, image_features, feature_block_list,
                 last_feature_map, i, pre>>

\* for level in range(self._fpn_min_level, base_fpn_max_level + 1):
\*   feature_maps.append(fpn_features['top_down_{}'.format(feature_blocks[level - 2])])
FeatureMapsLoop ==
  /\ pc = "feature_maps"
  /\ level < level_range_stop
  /\ feature_maps' = Append(feature_maps,
                            fpn_features[TopDownName(FeatureBlock(level))])
  /\ level' = level + 1
  /\ UNCHANGED <<config, pc, var_scope, arg_scope, graph, image_features,
                 feature_block_list, fpn_features, last_feature_map, i, pre>>

\* last_feature_map = fpn_features['top_down_{}'.format(
\*     feature_blocks[base_fpn_max_level - 2])]
SetLastFeatureMap ==
  /\ pc = "feature_maps"
  /\ ~(level < level_range_stop)
  /\ last_feature_map' =
       fpn_features[TopDownName(FeatureBlock(base_fpn_max_level))]
  /\ i' = coarse_range_start
  /\ pc' = "coarse"
  /\ UNCHANGED <<config, var_scope, arg_scope, graph, image_features,
                 feature_block_list, fpn_features, feature_maps, level, pre>>

\* for i in range(base_fpn_max_level + 1, self._fpn_max_level + 1):
\*   if self._use_explicit_padding:
\*     last_feature_map = ops.fixed_padding(last_feature_map, kernel_size)
\*   last_feature_map = conv_op(last_feature_map, ..., stride=2, padding=padding,
\*       scope='bottom_up_Conv2d_{}'.format(i - base_fpn_max_level + 19))
\*   feature_maps.append(last_feature_map)
CoarseLoop ==
  /\ pc = "coarse"
  /\ i < coarse_range_stop
  /\ LET padded == IF use_explicit_padding
                     THEN <<Node("fixed_padding", "", last_feature_map,
                                  kernel_size, 0, 0, "")>>
                     ELSE <<>>
         conv_in == IF use_explicit_padding
                      THEN Tensor(Len(graph) + 1, "")
                      ELSE last_feature_map
         conv == Node(conv_op, bottom_up_scope(i, base_fpn_max_level), conv_in,
                      0, stride, kernel_size, padding)
     IN /\ graph' = (graph \o padded) \o <<conv>>
        /\ last_feature_map' = Tensor(Len(graph) + Len(padded) + 1, "")
        /\ feature_maps' = Append(feature_maps, last_feature_map')
  /\ i' = i + 1
  /\ UNCHANGED <<config, pc, var_scope, arg_scope, image_features,
                 feature_block_list, fpn_features, level, pre>>

\* return feature_maps
Return ==
  /\ pc = "coarse"
  /\ ~(i < coarse_range_stop)
  /\ arg_scope' = <<>>
  /\ var_scope' = <<>>
  /\ pc' = "done"
  /\ UNCHANGED <<config, graph, locals, pre>>

Next ==
  \/ CheckMinImageDim
  \/ EnterMnasnetScope
  \/ EnterTrainingScope
  \/ EnterOverrideScope
  \/ PadToMultiple
  \/ MnasnetBase
  \/ ExitBaseScopes
  \/ EnterFpnScope
  \/ BlockListLoop
  \/ FpnTopDownFeatureMaps
  \/ FeatureMapsLoop
  \/ SetLastFeatureMap
  \/ CoarseLoop
  \/ Return

Spec == Init /\ [][Next]_vars

-----------------------------------------------------------------------------
(* preprocess: return (2.0 / 255.0) * resized_inputs - 1.0                  *)
(*                                                                         *)
(* resized_inputs is a float tensor, so the product and the difference are *)
(* each rounded to a float32 (24-bit significand, round to nearest, ties   *)
(* to even).  A float is [m, e], standing for m * 2^e.  All intermediate   *)
(* integers stay below 2^31.                                               *)

\* significand width of a float32
MantissaBits == 24
\* the 255.0 of the scale: the largest pixel value
MaxPixel == 255

F32(m, e) == [m |-> m, e |-> e]

Abs(n) == IF n < 0 THEN -n ELSE n

RECURSIVE BitLen(_)
BitLen(n) == IF n = 0 THEN 0 ELSE 1 + BitLen(n \div 2)

\* q + 1 or q: the quotient of a division by 2 * half that left remainder
\* r, rounded to nearest, ties to even
RoundQuotient(q, r, half) ==
  IF r > half \/ (r = half /\ q % 2 = 1) THEN q + 1 ELSE q

\* the float32 nearest to n * 2^e
ToFloat32(n, e) ==
  LET a == Abs(n)
      s == Max(0, BitLen(a) - MantissaBits)
      q == IF s = 0 THEN a
           ELSE RoundQuotient(a \div Pow2(s), a % Pow2(s), Pow2(s - 1))
  IN F32(IF n < 0 THEN -q ELSE q, e + s)

\* (2.0 / 255.0) as a float32: 2^31 / 255 rounded to nearest, in units of
\* 2^-30, computed from 2^30 = 255 * a + r
\* variant: 2.0 / 256.0
Scale_m == F32(Pow2(23), -30)
Scale ==
  LET a  == Pow2(30) \div MaxPixel
      r  == Pow2(30) % MaxPixel
      q  == 2 * a + (2 * r) \div MaxPixel
      r2 == (2 * r) % MaxPixel
  IN F32(IF 2 * r2 > MaxPixel THEN q + 1 ELSE q, -30)

\* c * x for a float c and a pixel value x (an integer, exact as a float32),
\* rounded to float32.  The exact product is 2 * h + b.
FMul(c, x) ==
  LET h    == (c.m \div 2) * x + ((c.m % 2) * x) \div 2
      b    == ((c.m % 2) * x) % 2
      bits == IF h = 0 THEN b ELSE BitLen(h) + 1
      s    == Max(0, bits - MantissaBits)
  IN IF s = 0 THEN F32(2 * h + b, c.e)
     ELSE F32(RoundQuotient(h \div Pow2(s - 1),
                            2 * (h % Pow2(s - 1)) + b,
                            Pow2(s - 1)),
              c.e + s)

\* p - 1.0 rounded to float32 (p.e <= 0, so 1.0 is 2^(-p.e) units of 2^p.e)
FSubOne(p) == ToFloat32(p.m - Pow2(-p.e), p.e)

\* SSDMNASNetA1FpnFeatureExtractor.preprocess, on one pixel value
A1_preprocess(x) == FSubOne(FMul(Scale, x))

\* SSDMNASNetB1FpnFeatureExtractor.preprocess, on one pixel value
B1_preprocess(x) == FSubOne(FMul(Scale, x))

\* a float of exponent >= -30 as an integer number of 2^-30; 1.0 in that unit
Fixed(v) == v.m * Pow2(v.e + 30)
One == Pow2(30)

\* positions of the pixel tensor handed to preprocess
PixelIndex == {1, 2}

\* Two extractors, one of each class, built with the default arguments
\* (fpn_min_level=3, fpn_max_level=7, flags False), and one tensor of pixels.
InitPreprocess ==
  /\ variant = "A1"
  /\ fpn_min_level = 3
  /\ fpn_max_level = 7
  /\ use_depthwise = FALSE
  /\ use_explicit_padding = FALSE
  /\ override_base_feature_extractor_hyperparams = FALSE
  /\ image_size = MinImageDim
  /\ InitLocals
  /\ resized_inputs \in [PixelIndex -> 0..MaxPixel]
  /\ preprocessedA1 = <<>>
  /\ preprocessedB1 = <<>>

A1Preprocess ==
  /\ preprocessedA1 = <<>>
  /\ preprocessedA1' = [k \in PixelIndex |-> A1_preprocess(resized_inputs[k])]
  /\ UNCHANGED <<config, pc, var_scope, arg_scope, graph, locals,
                 resized_inputs, preprocessedB1>>

B1Preprocess ==
  /\ preprocessedB1 = <<>>
  /\ preprocessedB1' = [k \in PixelIndex |-> B1_preprocess(resized_inputs[k])]
  /\ UNCHANGED <<config, pc, var_scope, arg_scope, graph, locals,
                 resized_inputs, preprocessedA1>>

NextPreprocess ==
  \/ A1Preprocess
  \/ B1Preprocess

SpecPreprocess == InitPreprocess /\ [][NextPreprocess]_vars

-----------------------------------------------------------------------------
(* Reading the constructed graph *)

\* the levels-to-layers table of the two __init__ docstrings
A1_doc_layers == <<"layer_5", "layer_8", "layer_13", "layer_19">>
B1_doc_layers == <<"layer_5", "layer_8", "layer_13", "layer_19">>

IsConv(n) == n.op \in {"conv2d", "separable_conv2d"}
IsAdded(n) == IsConv(n) \/ n.op \in {"fpn_top_down", "fixed_padding"}

\* graph indices of the additional convolutions, in construction order
ConvSeq == SelectSeq([k \in 1..Len(graph) |-> k], LAMBDA k : IsConv(graph[k]))

\* the tensor a convolution consumes, looking through its explicit padding
ConvSource(k) ==
  LET inp == graph[k].input
  IN IF graph[inp.node].op = "fixed_padding" THEN graph[inp.node].input ELSE inp

\* Pyramid level of the map produced by graph node k: a top-down map has the
\* level at which its backbone block stands in feature_blocks, padding keeps
\* the level, and a stride-2 convolution halves the resolution (next level).
RECURSIVE LevelOf(_)
LevelOf(k) ==
  LET n == graph[k]
  IN CASE n.op = "fpn_top_down" ->
            IF \E L \in 2..5 : n.name = TopDownName(FeatureBlock(L))
              THEN CHOOSE L \in 2..5 : n.name = TopDownName(FeatureBlock(L))
              ELSE 0
       [] n.op = "fixed_padding" -> LevelOf(n.input.node)
       [] IsConv(n) -> LevelOf(n.input.node) + (IF n.stride = 2 THEN 1 ELSE 0)
       [] OTHER -> 0

InScope(entry, scopes) == \E k \in 1..Len(scopes) : scopes[k] = entry

\* position of an op in the construction order of extract_features
Rank(op) ==
  CASE op = "check_min_image_dim" -> 1
    [] op = "pad_to_multiple" -> 2
    [] op = "mnasnet_base" -> 3
    [] op = "fpn_top_down" -> 4
    [] OTHER -> 5

-----------------------------------------------------------------------------
(* Claims *)

\* C1: for either extractor, whenever 2 <= fpn_min_level <= min(fpn_max_level, 5),
\* extract_features returns exactly fpn_max_level - fpn_min_level + 1 feature
\* maps, and the i-th (0-based) is the map of pyramid level fpn_min_level + i:
\* ordered from fpn_min_level to fpn_max_level, no level missing or repeated.
C1_OrderedPyramid ==
  (pc = "done" /\ 2 <= fpn_min_level /\ fpn_min_level <= Min(fpn_max_level, 5)) =>
    /\ Len(feature_maps) = fpn_max_level - fpn_min_level + 1
    /\ \A k \in 1..Len(feature_maps) :
         /\ feature_maps[k].node \in 1..Len(graph)
         /\ LevelOf(feature_maps[k].node) = fpn_min_level + (k - 1)

C1_Witness ==
  /\ pc = "done"
  /\ variant = "B1"
  /\ fpn_min_level = 2
  /\ fpn_max_level = MaxLevel
  /\ Len(feature_maps) = MaxLevel - 1
  /\ LevelOf(feature_maps[Len(feature_maps)].node) = MaxLevel

\* The wiring a docstring table states, for the maps extract_features returns:
\* for every level L in fpn_min_level..min(fpn_max_level, 5) the returned map of
\* level L is 'top_down_<layers[L-2]>', built from backbone end point layers[L-2].
DocumentedWiring(layers) ==
  \A L \in fpn_min_level..base_fpn_max_level :
    LET t == feature_maps[L - fpn_min_level + 1]
        n == graph[t.node]
    IN /\ n.op = "fpn_top_down"
       /\ n.name = TopDownName(layers[L - 1])
       /\ n.input.out = layers[L - 1]
       /\ graph[n.input.node].op = "mnasnet_base"

\* C2: in SSDMNASNetA1FpnFeatureExtractor the pyramid levels 2, 3, 4, 5 are fed
\* by backbone layers layer_5, layer_8, layer_13, layer_19: for every level L in
\* fpn_min_level..min(fpn_max_level, 5) the end point passed to the FPN and the
\* 'top_down_<layer>' map returned for L is the one the table names for L.
C2_A1DocumentedWiring ==
  (pc = "done" /\ variant = "A1") => DocumentedWiring(A1_doc_layers)

\* C3: in SSDMNASNetB1FpnFeatureExtractor the pyramid levels 2, 3, 4, 5 are fed
\* by backbone layers layer_5, layer_8, layer_13, layer_19: for every level L in
\* fpn_min_level..min(fpn_max_level, 5) the end point passed to the FPN and the
\* 'top_down_<layer>' map returned for L is the one the table names for L.
C3_B1DocumentedWiring ==
  (pc = "done" /\ variant = "B1") => DocumentedWiring(B1_doc_layers)

C3_Witness ==
  /\ pc = "done"
  /\ variant = "B1"
  /\ fpn_min_level = 2
  /\ fpn_max_level = 5
  /\ Len(feature_maps) = 4
  /\ graph[feature_maps[4].node].name = "top_down_layer_19"

\* C4: when fpn_max_level > 5, extract_features creates exactly
\* fpn_max_level - 5 additional maps, each by one stride-2 3x3 convolution; the
\* first takes the top-down map of level 5, each later one the output of the
\* previous additional convolution, and each is appended to the result in
\* creation order.  When fpn_max_level <= 5 no additional convolution is created.
C4_AdditionalMaps ==
  pc = "done" =>
    LET convs == ConvSeq
        kept  == base_fpn_max_level - fpn_min_level + 1
    IN /\ Len(convs) = IF fpn_max_level > 5 THEN fpn_max_level - 5 ELSE 0
       /\ \A j \in 1..Len(convs) :
            /\ graph[convs[j]].stride = 2
            /\ graph[convs[j]].kernel = 3
            /\ ConvSource(convs[j]) =
                 IF j = 1 THEN fpn_features[TopDownName(FeatureBlock(5))]
                          ELSE Tensor(convs[j - 1], "")
            /\ j = 1 => LevelOf(ConvSource(convs[j]).node) = 5
            /\ Len(feature_maps) >= kept + j
            /\ feature_maps[kept + j] = Tensor(convs[j], "")
       /\ Len(feature_maps) = kept + Len(convs)

C4_Witness ==
  /\ pc = "done"
  /\ fpn_max_level = 7
  /\ use_explicit_padding
  /\ Len(ConvSeq) = 2
  /\ ConvSource(ConvSeq[2]) = Tensor(ConvSeq[1], "")

\* C5: the arg scope of conv_hyperparams_fn is active whenever a layer added on
\* top of the base feature extractor (FPN top-down map, additional stride-2
\* convolution) is constructed; it is active while the backbone is constructed
\* iff override_base_feature_extractor_hyperparams; with the flag false the
\* backbone is built under the training scope and the min_depth scope only.
C5_ArgScopes ==
  \A k \in 1..Len(graph) :
    LET n == graph[k]
    IN /\ IsAdded(n) => InScope("conv_hyperparams", n.arg_scope)
       /\ n.op = "mnasnet_base" =>
            /\ InScope("conv_hyperparams", n.arg_scope)
                 <=> override_base_feature_extractor_hyperparams
            /\ ~override_base_feature_extractor_hyperparams =>
                 n.arg_scope =
                   <<"training_scope(is_training=None, bn_decay=0.9997)", "min_depth">>

C5_Witness ==
  /\ pc = "done"
  /\ ~override_base_feature_extractor_hyperparams
  /\ fpn_max_level = 6
  /\ Len(graph[3].arg_scope) = 2
  /\ \E k \in 1..Len(graph) :
       IsConv(graph[k]) /\ graph[k].arg_scope = <<"conv_hyperparams">>

\* C6: preprocess maps pixel values to [-1, 1]: for every pixel value x with
\* 0 <= x <= 255 the result lies in [-1, 1], 0 is mapped to -1 and 255 to 1,
\* the map is strictly increasing, and both classes compute the same value.
PreprocessedInRange(out) ==
  out /= <<>> =>
    /\ \A k \in PixelIndex :
         /\ -One <= Fixed(out[k]) /\ Fixed(out[k]) <= One
         /\ resized_inputs[k] = 0 => Fixed(out[k]) = -One
         /\ resized_inputs[k] = 255 => Fixed(out[k]) = One
    /\ \A j, k \in PixelIndex :
         resized_inputs[j] < resized_inputs[k] => Fixed(out[j]) < Fixed(out[k])

C6_PreprocessRange ==
  /\ PreprocessedInRange(preprocessedA1)
  /\ PreprocessedInRange(preprocessedB1)
  /\ (preprocessedA1 /= <<>> /\ preprocessedB1 /= <<>>) =>
       \A k \in PixelIndex : Fixed(preprocessedA1[k]) = Fixed(preprocessedB1[k])

C6_Witness ==
  /\ preprocessedA1 /= <<>>
  /\ preprocessedB1 /= <<>>
  /\ resized_inputs[1] = 0
  /\ resized_inputs[2] = 255
  /\ Fixed(preprocessedA1[1]) = -One
  /\ Fixed(preprocessedB1[2]) = One

\* C7: every call of extract_features constructs in one fixed order, whatever
\* fpn_min_level, fpn_max_level, use_depthwise, use_explicit_padding: the
\* minimum-dimension check (33) first, then pad_to_multiple and the backbone in
\* variable scope 'Mnasnet', then the FPN top-down maps in nested scope 'fpn',
\* then the additional stride-2 convolutions in increasing level order; the
\* backbone is always built up to layer_18 (A1) / layer_19 (B1), also when
\* fpn_max_level < 5; nothing is added before the backbone call has returned.
C7_FixedOrder ==
  /\ pc = "error" => graph = <<>>
  /\ pc = "done" => Len(graph) >= 4
  /\ \A a, b \in 1..Len(graph) :
       a < b => Rank(graph[a].op) <= Rank(graph[b].op)
  /\ Len(graph) >= 1 =>
       /\ graph[1].op = "check_min_image_dim"
       /\ graph[1].arg = 33
       /\ graph[1].var_scope = <<>>
  /\ Len(graph) >= 2 =>
       /\ graph[2].op = "pad_to_multiple"
       /\ graph[2].var_scope = <<"Mnasnet">>
  /\ Len(graph) >= 3 =>
       /\ graph[3].op = "mnasnet_base"
       /\ graph[3].var_scope = <<"Mnasnet">>
       /\ graph[3].arg = IF variant = "A1" THEN 18 ELSE 19
  /\ \A k \in 4..Len(graph) :
       /\ IsAdded(graph[k])
       /\ graph[k].var_scope = <<"Mnasnet", "fpn">>
  /\ \A a, b \in 1..Len(ConvSeq) :
       a < b => LevelOf(ConvSeq[a]) < LevelOf(ConvSeq[b])

C7_Witness ==
  /\ pc = "done"
  /\ variant = "A1"
  /\ fpn_min_level = 2
  /\ fpn_max_level = 4
  /\ use_depthwise
  /\ graph[3].op = "mnasnet_base"
  /\ graph[3].arg = 18
  /\ graph[4].op = "fpn_top_down"

\* C8: the additional stride-2 convolutions are created under scope names
\* 'bottom_up_Conv2d_20', 'bottom_up_Conv2d_21', ... in level order: the one of
\* level i (5 < i <= fpn_max_level) is 'bottom_up_Conv2d_<i + 14>'; within one
\* call the names are pairwise distinct and consecutive, and the name of a
\* level is the same for every fpn_min_level, fpn_max_level >= i and class.
C8_BottomUpNames ==
  LET convs == ConvSeq
  IN /\ \A j \in 1..Len(convs) :
          /\ 5 < LevelOf(convs[j]) /\ LevelOf(convs[j]) <= fpn_max_level
          /\ graph[convs[j]].name =
               "bottom_up_Conv2d_" \o ToString(LevelOf(convs[j]) + 14)
          /\ graph[convs[j]].name = "bottom_up_Conv2d_" \o ToString(19 + j)
     /\ \A a, b \in 1..Len(convs) :
          a /= b => graph[convs[a]].name /= graph[convs[b]].name

C8_Witness ==
  /\ pc = "done"
  /\ variant = "A1"
  /\ fpn_min_level = 4
  /\ fpn_max_level = MaxLevel
  /\ Len(ConvSeq) = MaxLevel - 5
  /\ graph[ConvSeq[1]].name = "bottom_up_Conv2d_20"
  /\ graph[ConvSeq[2]].name = "bottom_up_Conv2d_21"

====
